---- MODULE Spec2Model ----
(***************************************************************************)
(* A model of backup.py (backupacker): the name sanitizer, the tree        *)
(* partitioner (explore / build_tree / pack_files / _get_name), the diff   *)
(* reporter (compare_content and the stats loop of main) and main itself   *)
(* (configuration checks, rebuild of the build directory, rsync copy).     *)
(*                                                                         *)
(* Strings are sequences of code points (ord values), so that sanitize and *)
(* the name formatting are computed as the code computes them.  A path is  *)
(* the tuple pathlib calls .parts: a sequence of names, an absolute path   *)
(* starting with the part "/".                                             *)
(***************************************************************************)
EXTENDS Integers, Sequences, FiniteSets, TLC

\* ------------------------------------------------------------------ bounds
\* Longest name handed to sanitize in SpecSanitize.
MaxNameLen == 3

\* ------------------------------------------------------------ characters
Pct == 37
Dot == 46
Space == 32
Slash == 47
Dash == 45

\* DROPBOX_FORBIDDEN = {'"', '*', '/', ':', '<', '>', '?', '\\', '|'}
DROPBOX_FORBIDDEN == {34, 42, 47, 58, 60, 62, 63, 92, 124}

\* One lower-case hexadecimal digit, as hex() writes it.
HexDigit(d) == IF d < 10 THEN 48 + d ELSE 97 + (d - 10)

\* hex(n)[2:]
RECURSIVE Hex(_)
Hex(n) == IF n < 16 THEN <<HexDigit(n)>> ELSE Hex(n \div 16) \o <<HexDigit(n % 16)>>

\* str.upper() on one character of a hex string
UpperChar(c) == IF c >= 97 /\ c <= 122 THEN c - 32 ELSE c

Upper(s) == [i \in 1..Len(s) |-> UpperChar(s[i])]

\* '%' * pq
Percents(pq) == [i \in 1..pq |-> Pct]

\* _encode(char): '%' * (len(in_hex) // 2) + in_hex.upper()
Encode(char) ==
    LET in_hex == Hex(char)
        pq == Len(in_hex) \div 2
    IN Percents(pq) \o Upper(in_hex)

\* The loop of sanitize: one string per character of the name.
FinalChars(name) ==
    [i \in 1..Len(name) |->
        IF name[i] \in DROPBOX_FORBIDDEN \/ name[i] > 65535
        THEN Encode(name[i])
        ELSE <<name[i]>>]

\* s in '. ': the substring test of Python, on the strings '', '.', ' ', '. '
InDotSpace(s) == s \in {<<>>, <<Dot>>, <<Space>>, <<Dot, Space>>}

\* sanitize without its lines 50-51: the last character is left as it is
EscapeLastOff(final_chars) == final_chars

\* if final_chars[-1] in '. ': final_chars[-1] = _encode(final_chars[-1])
EscapeLast(final_chars) ==
    LET n == Len(final_chars) IN
    IF InDotSpace(final_chars[n])
    THEN SubSeq(final_chars, 1, n - 1) \o <<Encode(final_chars[n][1])>>
    ELSE final_chars

\* ''.join(final_chars)
RECURSIVE Join(_)
Join(ss) == IF ss = <<>> THEN <<>> ELSE Head(ss) \o Join(Tail(ss))

\* sanitize(name), for a non-empty name (final_chars[-1] raises IndexError on '')
Sanitize(name) == Join(EscapeLast(FinalChars(name)))

\* ----------------------------------------------------------------- strings
\* Code points of the literals the program formats names with.
TarBz2 == <<46, 116, 97, 114, 46, 98, 122, 50>>                        \* ".tar.bz2"
PackedFiles == <<95, 112, 97, 99, 107, 101, 100, 95, 102, 105, 108, 101, 115>>  \* "_packed_files"

\* str(num) for num >= 0
RECURSIVE Decimal(_)
Decimal(n) == IF n < 10 THEN <<48 + n>> ELSE Decimal(n \div 10) \o <<48 + (n % 10)>>

\* a < b for str: code point by code point, a proper prefix first
RECURSIVE StrLess(_, _)
StrLess(a, b) ==
    IF b = <<>> THEN FALSE
    ELSE IF a = <<>> THEN TRUE
    ELSE IF a[1] # b[1] THEN a[1] < b[1]
    ELSE StrLess(Tail(a), Tail(b))

\* ------------------------------------------------------------------- paths
\* pathlib.PurePosixPath as its .parts
RootPart == <<Slash>>

\* bool(path.root)
HasRoot(p) == Len(p) > 0 /\ p[1] = RootPart

\* a / b
PathJoin(a, b) == IF HasRoot(b) THEN b ELSE a \o b

\* path.parents: the proper ancestors, down to '/' (absolute) or '.' (relative)
Parents(p) ==
    {SubSeq(p, 1, k) : k \in (IF HasRoot(p) THEN 1 ELSE 0)..(Len(p) - 1)}

IsPrefix(base, p) == Len(base) <= Len(p) /\ SubSeq(p, 1, Len(base)) = base

\* path.parent
ParentOf(q) == SubSeq(q, 1, Len(q) - 1)

\* path.relative_to(base), for base a prefix of path (else ValueError)
RelativeTo(p, base) == SubSeq(p, Len(base) + 1, Len(p))

\* a < b for paths: part by part
RECURSIVE PathLess(_, _)
PathLess(a, b) ==
    IF b = <<>> THEN FALSE
    ELSE IF a = <<>> THEN TRUE
    ELSE IF a[1] # b[1] THEN StrLess(a[1], b[1])
    ELSE PathLess(Tail(a), Tail(b))

\* sorted(paths)
RECURSIVE Sorted(_)
Sorted(S) ==
    IF S = {} THEN <<>>
    ELSE LET m == CHOOSE x \in S : \A y \in S \ {x} : PathLess(x, y)
         IN <<m>> \o Sorted(S \ {m})

\* str(path)
RECURSIVE StrRel(_)
StrRel(parts) ==
    IF parts = <<>> THEN <<>>
    ELSE IF Len(parts) = 1 THEN parts[1]
    ELSE parts[1] \o <<Slash>> \o StrRel(Tail(parts))

Str(p) ==
    IF p = <<>> THEN <<Dot>>
    ELSE IF HasRoot(p) THEN <<Slash>> \o StrRel(Tail(p))
    ELSE StrRel(p)

\* pathlib.Path(text): split on '/', drop empty and '.' parts, keep a leading '/'
RECURSIVE SplitParts(_, _)
SplitParts(text, cur) ==
    LET flush == IF cur = <<>> \/ cur = <<Dot>> THEN <<>> ELSE <<cur>> IN
    IF text = <<>> THEN flush
    ELSE IF text[1] = Slash THEN flush \o SplitParts(Tail(text), <<>>)
    ELSE SplitParts(Tail(text), cur \o <<text[1]>>)

Path(text) ==
    IF text # <<>> /\ text[1] = Slash
    THEN <<RootPart>> \o SplitParts(text, <<>>)
    ELSE SplitParts(text, <<>>)

\* ------------------------------------------------------------- file system
\* fs maps each existing absolute path to its node.  A blob's data is the set of
\* its archive entries (the file added and its arcname); by names the function
\* that wrote the file ("plain" for a file the program did not write).
DirNode == [kind |-> "dir", readable |-> TRUE, by |-> "plain", data |-> {}]
FileNode(readable, by, data) == [kind |-> "file", readable |-> readable, by |-> by, data |-> data]

Exists(f, p) == p \in DOMAIN f
IsDir(f, p) == Exists(f, p) /\ f[p].kind = "dir"

\* directory.iterdir(): the paths directory / name
IterDir(f, d) == {p \in DOMAIN f : Len(p) = Len(d) + 1 /\ IsPrefix(d, p)}

\* every path at or below d
Subtree(f, d) == {p \in DOMAIN f : IsPrefix(d, p)}

\* f with node n at path p
WithNode(f, p, n) == [q \in DOMAIN f \cup {p} |-> IF q = p THEN n ELSE f[q]]

\* os.access(fpath, os.R_OK)
Readable(f, p) == Exists(f, p) /\ f[p].readable

\* ------------------------------------------------------------------- state
VARIABLES
    pc,            \* where main is: "validate", "rebuild", "call_explore", "explore",
                   \* "stats", "compare", "copy", "done", "aborted"; "sanitize" / "sanitized"
    err,           \* the exception that ended the run, or "none"
    cfg,           \* the loaded configuration (yaml.safe_load)
    rootdir, builddir, syncdir, to_ignore, group_levels,   \* locals of main
    fs,            \* the file system
    bytes,         \* byte content of the files the diff reads
    stack,         \* the frames of explore, innermost last
    log,           \* what explore logged
    walk,          \* the files the stats loop has still to visit
    all_stats,     \* all_stats of main
    cmp,           \* the open file pair of compare_content and its read position
    todo,          \* the nodes of builddir the copy loop has still to rsync
    sname,         \* the argument of a sanitize call
    sresult        \* its result

vars == <<pc, err, cfg, rootdir, builddir, syncdir, to_ignore, group_levels, fs, bytes,
          stack, log, walk, all_stats, cmp, todo, sname, sresult>>

mainLocals == <<rootdir, builddir, syncdir, to_ignore, group_levels>>
statsVars == <<walk, all_stats, cmp, bytes>>
sanVars == <<sname, sresult>>

\* ------------------------------------------------------- archive builder
\* The while loop of _get_name: fpath is a bare file name, listing holds the
\* paths directory / name that directory.iterdir() yields.
RECURSIVE GetNameLoop(_, _, _, _)
GetNameLoop(fpath, num, basename, listing) ==
    IF fpath \in listing
    THEN GetNameLoop(Path(basename \o <<Dash>> \o Decimal(num) \o TarBz2), num + 1,
                     basename, listing)
    ELSE fpath

\* _get_name(basename, directory)
GetName(basename, directory, f) ==
    PathJoin(directory, GetNameLoop(Path(basename \o TarBz2), 1, basename,
                                    IterDir(f, directory)))

\* an arcname that keeps the file's name only
TreeArcnameBase(fpath, root) == Str(<<fpath[Len(fpath)]>>)

\* arcname of build_tree: str(pathlib.Path(fpath).relative_to(rootdir))
TreeArcname(fpath, root) == Str(RelativeTo(fpath, root))

\* a walk that skips the ignored files and enters the ignored directories
RECURSIVE WalkFilesNoPrune(_, _, _)
WalkFilesNoPrune(f, dirpath, ignore) ==
    {p \in IterDir(f, dirpath) : ~IsDir(f, p) /\ p \notin ignore /\ Readable(f, p)}
    \cup UNION {WalkFilesNoPrune(f, d, ignore) : d \in {p \in IterDir(f, dirpath) : IsDir(f, p)}}

\* The os.walk loop of build_tree from dirpath down: the files it adds. An
\* ignored directory is pruned (dirnames.clear()), an ignored or unreadable
\* file is skipped.
RECURSIVE WalkFiles(_, _, _)
WalkFiles(f, dirpath, ignore) ==
    IF dirpath \in ignore
    THEN {}
    ELSE {p \in IterDir(f, dirpath) : ~IsDir(f, p) /\ p \notin ignore /\ Readable(f, p)}
         \cup UNION {WalkFiles(f, d, ignore) : d \in {p \in IterDir(f, dirpath) : IsDir(f, p)}}

\* build_tree(rootdir, builddir, node, to_ignore): the file system after it, or
\* the exception of tarfile.open(..., 'x:bz2') on an existing name.
BuildTree(root, build, node, ignore, f) ==
    LET sane_name == Sanitize(Str(node))
        fname == GetName(sane_name, build, f)
        entries == {[fpath |-> p, arcname |-> TreeArcname(p, root)] :
                        p \in WalkFiles(f, PathJoin(root, node), ignore)}
    IN IF Exists(f, fname)
       THEN [ok |-> FALSE, fs |-> f]
       ELSE [ok |-> TRUE, fs |-> WithNode(f, fname, FileNode(TRUE, "build_tree", entries))]

\* a pack that adds every file of all_files, readable or not
PackEntriesAll(root, all_files, f) ==
    {[fpath |-> PathJoin(root, all_files[i]), arcname |-> Str(all_files[i])] :
        i \in 1..Len(all_files)}

\* the files pack_files adds: those of all_files that os.access finds readable
PackEntries(root, all_files, f) ==
    {[fpath |-> PathJoin(root, all_files[i]), arcname |-> Str(all_files[i])] :
        i \in {j \in 1..Len(all_files) : Readable(f, PathJoin(root, all_files[j]))}}

\* pack_files(rootdir, builddir, all_files)
PackFiles(root, build, all_files, f) ==
    IF all_files = <<>>
    THEN [ok |-> TRUE, fs |-> f]
    ELSE LET tarfpath == GetName(PackedFiles, build, f) IN
         IF Exists(f, tarfpath)
         THEN [ok |-> FALSE, fs |-> f]
         ELSE [ok |-> TRUE,
               fs |-> WithNode(f, tarfpath, FileNode(TRUE, "pack_files", PackEntries(root, all_files, f)))]

\* ------------------------------------------------------- tree partitioner
\* any(group == node or group in node.parents for group in group_levels)
IsGrouped(node, gl) ==
    \E group \in DOMAIN gl : group = node \/ group \in Parents(node)

\* {k: v - 1 for k, v in group_levels.items() if v > 1}
GroupLevelsSub(gl) == [k \in {g \in DOMAIN gl : gl[g] > 1} |-> gl[k] - 1]

\* node in to_ignore, the test of the loop of explore
ExploreIgnores(node, ignore) == node \in ignore

\* A call of explore up to its loop: sorted(rootdir.iterdir()) is taken once.
Frame(root, build, gl, deep, f) ==
    [rootdir |-> root, builddir |-> build, group_levels |-> gl,
     nodes |-> Sorted(IterDir(f, root)), all_files |-> <<>>, deep |-> deep]

Top == stack[Len(stack)]
Below == SubSeq(stack, 1, Len(stack) - 1)
Advance(frame) == [frame EXCEPT !.nodes = Tail(@)]

Abort(e) == pc' = "aborted" /\ err' = e

\* main, line 235: explore(rootdir, builddir, group_levels, to_ignore)
CallExplore ==
    /\ pc = "call_explore"
    /\ IF IsDir(fs, rootdir)
       THEN /\ stack' = <<Frame(rootdir, builddir, group_levels, 0, fs)>>
            /\ pc' = "explore"
            /\ err' = err
       ELSE /\ Abort("FileNotFoundError")
            /\ stack' = stack
    /\ UNCHANGED <<cfg, mainLocals, fs, log, statsVars, todo, sanVars>>

\* explore, lines 121-123: an ignored node is skipped
ExploreIgnored ==
    /\ pc = "explore"
    /\ Top.nodes # <<>>
    /\ LET node == Head(Top.nodes) IN
       /\ ExploreIgnores(node, to_ignore)
       /\ log' = log \cup {[msg |-> "ignoring", node |-> node]}
       /\ stack' = Below \o <<Advance(Top)>>
    /\ UNCHANGED <<pc, err, cfg, mainLocals, fs, statsVars, todo, sanVars>>

\* explore, lines 125-129: a node that is no directory is kept for pack_files
ExploreFile ==
    /\ pc = "explore"
    /\ Top.nodes # <<>>
    /\ LET node == Head(Top.nodes)
           node_relative == RelativeTo(node, Top.rootdir)
       IN
       /\ ~ExploreIgnores(node, to_ignore)
       /\ ~IsDir(fs, node)
       /\ stack' = Below \o <<[Advance(Top) EXCEPT !.all_files = Append(@, node_relative)]>>
    /\ UNCHANGED <<pc, err, cfg, mainLocals, fs, log, statsVars, todo, sanVars>>

\* explore, lines 131-136: a grouped directory gets a build subdirectory and a
\* recursive call
ExploreGoDown ==
    /\ pc = "explore"
    /\ Top.nodes # <<>>
    /\ LET node == Head(Top.nodes)
           node_relative == RelativeTo(node, Top.rootdir)
           build_sub == PathJoin(Top.builddir, Path(Sanitize(Str(node_relative))))
           fs_sub == WithNode(fs, build_sub, DirNode)
       IN
       /\ ~ExploreIgnores(node, to_ignore)
       /\ IsDir(fs, node)
       /\ IsGrouped(node, Top.group_levels)
       /\ log' = log \cup {[msg |-> "going down", node |-> node]}
       /\ IF Exists(fs, build_sub)
          THEN /\ Abort("FileExistsError: mkdir")
               /\ UNCHANGED <<fs, stack>>
          ELSE /\ fs' = fs_sub
               /\ stack' = Below \o <<Advance(Top),
                              Frame(node, build_sub, GroupLevelsSub(Top.group_levels),
                                    Top.deep + 1, fs_sub)>>
               /\ UNCHANGED <<pc, err>>
    /\ UNCHANGED <<cfg, mainLocals, statsVars, todo, sanVars>>

\* explore, lines 137-139: any other directory is built whole by build_tree
ExploreBuildTree ==
    /\ pc = "explore"
    /\ Top.nodes # <<>>
    /\ LET node == Head(Top.nodes)
           node_relative == RelativeTo(node, Top.rootdir)
           built == BuildTree(Top.rootdir, Top.builddir, node_relative, to_ignore, fs)
       IN
       /\ ~ExploreIgnores(node, to_ignore)
       /\ IsDir(fs, node)
       /\ ~IsGrouped(node, Top.group_levels)
       /\ log' = log \cup {[msg |-> "building tree", node |-> node]}
       /\ IF built.ok
          THEN /\ fs' = built.fs
               /\ stack' = Below \o <<Advance(Top)>>
               /\ UNCHANGED <<pc, err>>
          ELSE /\ Abort("FileExistsError: tarfile.open")
               /\ UNCHANGED <<fs, stack>>
    /\ UNCHANGED <<cfg, mainLocals, statsVars, todo, sanVars>>

\* explore, lines 141-143: after the loop pack_files packs the loose files and
\* the call returns (the outermost one to main, line 238)
ExplorePack ==
    /\ pc = "explore"
    /\ Top.nodes = <<>>
    /\ LET packed == PackFiles(Top.rootdir, Top.builddir, Top.all_files, fs) IN
       /\ log' = log \cup {[msg |-> "packing", node |-> Top.rootdir]}
       /\ IF packed.ok
          THEN /\ fs' = packed.fs
               /\ stack' = Below
               /\ pc' = IF Below = <<>> THEN "stats" ELSE "explore"
               /\ err' = err
          ELSE /\ Abort("FileExistsError: tarfile.open")
               /\ UNCHANGED <<fs, stack>>
    /\ UNCHANGED <<cfg, mainLocals, statsVars, todo, sanVars>>

ExploreNext ==
    \/ CallExplore
    \/ ExploreIgnored
    \/ ExploreFile
    \/ ExploreGoDown
    \/ ExploreBuildTree
    \/ ExplorePack

\* ---------------------------------------------------------- configuration
\* A value of the group_levels mapping as YAML loads it: an int, or a str.
IntValue(n) == [t |-> "int", v |-> n]
StrValue(text) == [t |-> "str", v |-> text]

IsDigits(text) == text # <<>> /\ \A i \in 1..Len(text) : text[i] >= 48 /\ text[i] <= 57

RECURSIVE DigitsValue(_)
DigitsValue(text) ==
    IF text = <<>> THEN 0
    ELSE DigitsValue(SubSeq(text, 1, Len(text) - 1)) * 10 + (text[Len(text)] - 48)

\* int(value) raises ValueError
IntRaises(value) ==
    /\ value.t = "str"
    /\ ~IsDigits(value.v)
    /\ ~(Len(value.v) > 1 /\ value.v[1] = Dash /\ IsDigits(Tail(value.v)))

\* int(value)
IntOf(value) ==
    IF value.t = "int" THEN value.v
    ELSE IF value.v[1] = Dash THEN 0 - DigitsValue(Tail(value.v))
    ELSE DigitsValue(value.v)

\* main, lines 168-178: rootdir, builddir and syncdir must be absolute
BadDirs(c) ==
    \/ ~HasRoot(Path(c.rootdir))
    \/ ~HasRoot(Path(c.builddir))
    \/ ~HasRoot(Path(c.syncdir))

\* main, lines 183-190: an entry of ignore_list is absolute or does not exist
BadIgnore(c, f) ==
    \E node_str \in c.ignore_list :
        LET node_relative == Path(node_str)
            node == PathJoin(Path(c.rootdir), node_relative)
        IN HasRoot(node_relative) \/ ~Exists(f, node)

\* main, line 191: to_ignore
ToIgnore(c) == {PathJoin(Path(c.rootdir), Path(node_str)) : node_str \in c.ignore_list}

\* main, lines 195-215: a key of group_levels does not exist, is no directory or
\* has several segments, or its value is no number
BadGroup(c, f) ==
    \E dirpath_str \in DOMAIN c.group_levels :
        LET dirpath_relative == Path(dirpath_str)
            dirpath == PathJoin(Path(c.rootdir), dirpath_relative)
        IN \/ ~Exists(f, dirpath)
           \/ ~IsDir(f, dirpath)
           \/ Len(dirpath_relative) > 1
           \/ IntRaises(c.group_levels[dirpath_str])

\* main, line 217: group_levels
GroupLevels(c) ==
    LET dirpathOf(k) == PathJoin(Path(c.rootdir), Path(k)) IN
    [dirpath \in {dirpathOf(k) : k \in DOMAIN c.group_levels} |->
        IntOf(c.group_levels[CHOOSE k \in DOMAIN c.group_levels : dirpathOf(k) = dirpath])]

\* main without the check of its lines 221-226
BadNestingOff(c) == FALSE

\* main, lines 221-226: the build or the sync dir is under the root dir and under
\* nothing ignored
BadNesting(c) ==
    \E checkdir \in {Path(c.builddir), Path(c.syncdir)} :
        /\ Path(c.rootdir) \in Parents(checkdir)
        /\ ~\E ignored \in ToIgnore(c) : ignored \in Parents(checkdir)

\* main, lines 164-228: the configuration is checked, in this order, and the
\* first failing check raises ValueError
Validate ==
    /\ pc = "validate"
    /\ IF BadDirs(cfg) \/ BadIgnore(cfg, fs) \/ BadGroup(cfg, fs) \/ BadNesting(cfg)
       THEN /\ Abort("ValueError")
            /\ UNCHANGED mainLocals
       ELSE /\ rootdir' = Path(cfg.rootdir)
            /\ builddir' = Path(cfg.builddir)
            /\ syncdir' = Path(cfg.syncdir)
            /\ to_ignore' = ToIgnore(cfg)
            /\ group_levels' = GroupLevels(cfg)
            /\ pc' = "rebuild"
            /\ err' = err
    /\ UNCHANGED <<cfg, fs, stack, log, statsVars, todo, sanVars>>

\* shutil.rmtree(path)
RmTree(f, path) == [q \in DOMAIN f \ Subtree(f, path) |-> f[q]]

\* the directories os.makedirs(path) has to create
MissingDirs(f, path) == {SubSeq(path, 1, k) : k \in 1..Len(path)} \ DOMAIN f

\* os.makedirs(path)
MakeDirs(f, path) == [q \in DOMAIN f \cup MissingDirs(f, path) |-> IF q \in DOMAIN f THEN f[q] ELSE DirNode]

\* main, lines 231-233: the old build dir is removed
RemoveOldBuild ==
    /\ pc = "rebuild"
    /\ IF ~Exists(fs, builddir)
       THEN /\ pc' = "makedirs"
            /\ UNCHANGED <<fs, err>>
       ELSE IF IsDir(fs, builddir)
       THEN /\ fs' = RmTree(fs, builddir)
            /\ pc' = "makedirs"
            /\ err' = err
       ELSE /\ Abort("NotADirectoryError")
            /\ fs' = fs
    /\ UNCHANGED <<cfg, mainLocals, stack, log, statsVars, todo, sanVars>>

\* main, line 234: os.makedirs(builddir)
MakeBuildDir ==
    /\ pc = "makedirs"
    /\ IF \E k \in 1..(Len(builddir) - 1) :
             LET up == SubSeq(builddir, 1, k) IN Exists(fs, up) /\ ~IsDir(fs, up)
       THEN /\ Abort("NotADirectoryError")
            /\ fs' = fs
       ELSE /\ fs' = MakeDirs(fs, builddir)
            /\ pc' = "call_explore"
            /\ err' = err
    /\ UNCHANGED <<cfg, mainLocals, stack, log, statsVars, todo, sanVars>>

\* ------------------------------------------------------------ diff reporter
\* The files os.walk(str(builddir)) visits
BuildFiles(f, build) == {p \in Subtree(f, build) : ~IsDir(f, p)}

\* sync_fpath = syncdir / dirpath.relative_to(builddir) / fname
SyncPath(p, build, sync) == PathJoin(sync, RelativeTo(p, build))

\* main, lines 238-266, as far as the file system goes: the stats are logged
\* and nothing is written; open() raises on a directory at a blob's mirror path
Stats ==
    /\ pc = "stats"
    /\ IF \E p \in BuildFiles(fs, builddir) : IsDir(fs, SyncPath(p, builddir, syncdir))
       THEN /\ Abort("IsADirectoryError")
            /\ todo' = todo
       ELSE /\ pc' = "copy"
            /\ err' = err
            /\ todo' = IterDir(fs, builddir)
    /\ UNCHANGED <<cfg, mainLocals, fs, stack, log, statsVars, sanVars>>

\* fh.read(65536)
ChunkSize == 65536

\* The content of a file the diff reads: len bytes, all 0 but a 1 at position
\* mark (mark = 0: no 1).
ByteAt(c, i) == IF i = c.mark THEN 1 ELSE 0

\* fh.read(size) at file position pos: the next bytes, at most size of them
Read(c, pos, size) ==
    LET k == IF c.len - pos < size THEN c.len - pos ELSE size IN
    IF k <= 0 THEN <<>> ELSE [i \in 1..k |-> ByteAt(c, pos + i)]

\* a comparison that answers after the first chunk
ChunkVerdictFirstChunk(data1, data2) ==
    IF data1 # data2 THEN "differ" ELSE "same"

\* One round of the loop of compare_content on the chunks read:
\* "differ" (return False), "same" (return True) or "more" (read on)
ChunkVerdict(data1, data2) ==
    IF data1 # data2 THEN "differ"
    ELSE IF data1 = <<>> THEN "same"
    ELSE "more"

\* all_stats.append((build_fpath.relative_to(builddir), size, status))
Stat(build_fpath, status) ==
    <<RelativeTo(build_fpath, builddir), bytes[build_fpath].len, status>>

\* os.walk is top-down: a file comes before the files of the directories below
\* its own
WalkNext(p) == \A q \in walk : ~(ParentOf(p) # ParentOf(q) /\ IsPrefix(ParentOf(q), ParentOf(p)))

\* main, lines 245-255: the next file of the walk; it is "new" when nothing
\* exists at its mirror path, and is compared with the mirror file otherwise
StatsWalk ==
    /\ pc = "stats"
    /\ \E build_fpath \in walk :
        LET sync_fpath == SyncPath(build_fpath, builddir, syncdir) IN
        /\ WalkNext(build_fpath)
        /\ IF ~Exists(fs, sync_fpath)
           THEN /\ all_stats' = Append(all_stats, Stat(build_fpath, "new"))
                /\ walk' = walk \ {build_fpath}
                /\ UNCHANGED <<pc, err, cmp>>
           ELSE IF IsDir(fs, sync_fpath)
           THEN /\ Abort("IsADirectoryError")
                /\ UNCHANGED <<walk, all_stats, cmp>>
           ELSE /\ cmp' = [fpath1 |-> build_fpath, fpath2 |-> sync_fpath, pos1 |-> 0, pos2 |-> 0]
                /\ pc' = "compare"
                /\ UNCHANGED <<err, walk, all_stats>>
    /\ UNCHANGED <<cfg, mainLocals, fs, bytes, stack, log, todo, sanVars>>

\* compare_content, lines 153-159: one round of the loop; on return the status
\* is recorded (main, lines 250-255)
CompareChunk ==
    /\ pc = "compare"
    /\ LET data1 == Read(bytes[cmp.fpath1], cmp.pos1, ChunkSize)
           data2 == Read(bytes[cmp.fpath2], cmp.pos2, ChunkSize)
           verdict == ChunkVerdict(data1, data2)
       IN IF verdict = "more"
          THEN /\ cmp' = [cmp EXCEPT !.pos1 = @ + Len(data1), !.pos2 = @ + Len(data2)]
               /\ UNCHANGED <<pc, walk, all_stats>>
          ELSE /\ all_stats' = Append(all_stats,
                       Stat(cmp.fpath1, IF verdict = "same" THEN "equal" ELSE "changed"))
               /\ walk' = walk \ {cmp.fpath1}
               /\ cmp' = <<>>
               /\ pc' = "stats"
    /\ UNCHANGED <<err, cfg, mainLocals, fs, bytes, stack, log, todo, sanVars>>

\* main, lines 257-270: the walk is over, the stats are logged and the copy begins
StatsDone ==
    /\ pc = "stats"
    /\ walk = {}
    /\ pc' = "copy"
    /\ todo' = IterDir(fs, builddir)
    /\ UNCHANGED <<err, cfg, mainLocals, fs, stack, log, statsVars, sanVars>>

DiffNext ==
    \/ StatsWalk
    \/ CompareChunk
    \/ StatsDone

\* ------------------------------------------------------------- mirror sync
\* the subtree of f at src, moved to dst
Moved(f, src, dst) ==
    [q \in {dst \o RelativeTo(p, src) : p \in Subtree(f, src)} |->
        f[src \o RelativeTo(q, dst)]]

\* f with the subtree at dst replaced by a copy of the subtree at src
CopyOver(f, src, dst) ==
    LET kept == DOMAIN f \ Subtree(f, dst)
        new == Moved(f, src, dst)
    IN [q \in kept \cup DOMAIN new |-> IF q \in DOMAIN new THEN new[q] ELSE f[q]]

\* rsync -t -r --delete --inplace node dest: node (no trailing slash) is copied
\* to dest/<name of node>; --delete removes what is extraneous inside a copied
\* directory, and only there.  A missing dest is created (a single source file
\* is then written as dest itself).
Rsync(f, node, dest) ==
    LET name == node[Len(node)] IN
    IF IsDir(f, dest) THEN CopyOver(f, node, dest \o <<name>>)
    ELSE IF IsDir(f, node) THEN CopyOver(WithNode(f, dest, DirNode), node, dest \o <<name>>)
    ELSE CopyOver(f, node, dest)

\* rsync exits non-zero (subprocess.run(..., check=True) raises): dest cannot be
\* made because its parent is no directory
RsyncFails(f, dest) ==
    ~IsDir(f, dest) /\ ~IsDir(f, SubSeq(dest, 1, Len(dest) - 1))

\* main, lines 270-273: one rsync per node of builddir, in listing order
CopyNode ==
    /\ pc = "copy"
    /\ \E node \in todo :
        /\ todo' = todo \ {node}
        /\ IF RsyncFails(fs, syncdir)
           THEN /\ Abort("CalledProcessError")
                /\ fs' = fs
           ELSE /\ fs' = Rsync(fs, node, syncdir)
                /\ UNCHANGED <<pc, err>>
    /\ UNCHANGED <<cfg, mainLocals, stack, log, statsVars, sanVars>>

\* main, line 275: the loop is over
CopyDone ==
    /\ pc = "copy"
    /\ todo = {}
    /\ pc' = "done"
    /\ UNCHANGED <<err, cfg, mainLocals, fs, stack, log, statsVars, todo, sanVars>>

MainNext ==
    \/ Validate
    \/ RemoveOldBuild
    \/ MakeBuildDir
    \/ ExploreNext
    \/ Stats
    \/ CopyNode
    \/ CopyDone

\* ------------------------------------------------------------ initial states
\* Bounds of the source trees and configurations explored.
MaxFiles == 2
MaxIgnore == 1
MaxKeys == 1
MaxBudget == 1

\* names, as code points
N_home == <<104, 111, 109, 101>>
N_data == <<100, 97, 116, 97>>
N_build == <<98, 117, 105, 108, 100>>
N_sync == <<115, 121, 110, 99>>
N_tmp == <<116, 109, 112>>
N_nope == <<110, 111, 112, 101>>
N_p == <<112>>
N_o == <<111>>
N_s == <<115>>
N_f == <<102>>
N_x == <<120>>
N_y == <<121>>
N_z == <<122>>
N_w == <<119>>
N_g == <<103>>
N_a == <<97>>
N_aColon == <<97, 58>>               \* "a:"
N_aPct3A == <<97, 37, 51, 65>>       \* "a%3A", what sanitize makes of "a:"
N_abc == <<97, 98, 99>>

Blob(base) == base \o TarBz2

RootPath == <<RootPart, N_home, N_data>>
BuildPath == <<RootPart, N_build>>
SyncPath0 == <<RootPart, N_sync>>

\* f with directories at dirs and readable plain files at files
WithTree(f, dirs, files, unreadable) ==
    [q \in DOMAIN f \cup dirs \cup files |->
        IF q \in files THEN FileNode(q \notin unreadable, "plain", {})
        ELSE IF q \in dirs THEN DirNode
        ELSE f[q]]

\* "/", and the build dir left by an earlier run
BaseFs ==
    WithNode(WithTree(<<>>, {<<RootPart>>, BuildPath}, {}, {}),
             BuildPath \o <<Blob(N_o)>>, FileNode(TRUE, "build_tree", {}))

\* the proper prefixes of the paths of S below base
DirsOf(S, base) ==
    UNION {{SubSeq(p, 1, k) : k \in Len(base)..(Len(p) - 1)} : p \in S}

\* Files a source tree may hold, relative to the root.
CandFiles ==
    {<<N_p, N_aColon, N_x>>, <<N_p, N_aPct3A, N_x>>, <<N_p, N_aColon, N_s, N_y>>, <<N_p, N_y>>,
     <<N_o, N_z>>, <<N_o, N_s, N_w>>, <<PackedFiles, N_x>>, <<N_f>>}

Budgets == 0..MaxBudget

\* Files that may be unreadable.
UnreadCand == {<<N_f>>, <<N_o, N_z>>, <<N_p, N_y>>}

Unset ==
    /\ rootdir = <<>> /\ builddir = <<>> /\ syncdir = <<>>
    /\ to_ignore = {} /\ group_levels = <<>>
    /\ stack = <<>> /\ log = {} /\ todo = {}
    /\ walk = {} /\ all_stats = <<>> /\ cmp = <<>>
    /\ sname = <<>> /\ sresult = <<>>

\* Any source tree of at most MaxFiles files, any ignore set of at most
\* MaxIgnore of its nodes, any budget for at most MaxKeys of its top-level
\* directories; build dir and mirror outside the root.
InitExplore ==
    /\ pc = "validate" /\ err = "none" /\ bytes = <<>>
    /\ Unset
    /\ \E rel \in SUBSET CandFiles :
        /\ Cardinality(rel) >= 1 /\ Cardinality(rel) <= MaxFiles
        /\ \E unread \in SUBSET (rel \cap UnreadCand) :
            /\ Cardinality(unread) <= 1
            /\ LET files == {RootPath \o r : r \in rel}
                   dirs == DirsOf(files, <<RootPart>>) \cup {SyncPath0}
                   nodes == (files \cup dirs) \cap {q \in files \cup dirs : Len(q) > Len(RootPath) /\ IsPrefix(RootPath, q)}
                   tops == {q \in dirs : Len(q) = Len(RootPath) + 1 /\ IsPrefix(RootPath, q)}
               IN
               /\ fs = WithTree(BaseFs, dirs, files, {RootPath \o r : r \in unread})
               /\ \E ign \in SUBSET nodes :
                   /\ Cardinality(ign) <= MaxIgnore
                   /\ \E keys \in SUBSET tops :
                       /\ Cardinality(keys) <= MaxKeys
                       /\ \E levels \in [{Str(RelativeTo(k, RootPath)) : k \in keys} -> Budgets] :
                           cfg = [rootdir |-> Str(RootPath),
                                  builddir |-> Str(BuildPath),
                                  syncdir |-> Str(SyncPath0),
                                  ignore_list |-> {Str(RelativeTo(q, RootPath)) : q \in ign},
                                  group_levels |-> [k \in DOMAIN levels |-> IntValue(levels[k])]]

SpecExplore == InitExplore /\ [][MainNext]_vars

\* ------------------------------------------------- claims on the partitioner
\* what the build holds once main has set builddir
Blobs == IF builddir = <<>> THEN {} ELSE BuildFiles(fs, builddir)

\* explore has returned to main
Completed == pc \in {"stats", "copy", "done"}

\* q is in the ignore set or below a member of it
Hidden(q) == \E i \in to_ignore : IsPrefix(i, q)

\* the directories explore was called on
WentDown == {l.node : l \in {m \in log : m.msg = "going down"}}
Explored == {rootdir} \cup WentDown
BuiltWhole == {l.node : l \in {m \in log : m.msg = "building tree"}}

SourceFiles == {q \in DOMAIN fs : Len(q) > Len(rootdir) /\ IsPrefix(rootdir, q) /\ ~IsDir(fs, q)}
SourceDirs == {q \in DOMAIN fs : Len(q) > Len(rootdir) /\ IsPrefix(rootdir, q) /\ IsDir(fs, q)}

\* the build directory that mirrors source directory d
BuildDirOf(d) ==
    LET rel == RelativeTo(d, rootdir) IN builddir \o [i \in 1..Len(rel) |-> Sanitize(rel[i])]

\* the next node of the innermost explore call, when it is a directory that
\* build_tree is about to archive
NextIsLeaf ==
    /\ pc = "explore" /\ Top.nodes # <<>>
    /\ Head(Top.nodes) \notin to_ignore
    /\ IsDir(fs, Head(Top.nodes))
    /\ ~IsGrouped(Head(Top.nodes), Top.group_levels)

\* the innermost explore call is about to pack loose files
NextIsPack == pc = "explore" /\ Top.nodes = <<>> /\ Top.all_files # <<>>

\* C1 (as claimed): the name _get_name returns for the blob about to be created
\* is free in the build directory, so that no run aborts on an existing blob.
C1_FreshName ==
    /\ NextIsLeaf =>
         ~Exists(fs, GetName(Sanitize(Str(RelativeTo(Head(Top.nodes), Top.rootdir))),
                             Top.builddir, fs))
    /\ NextIsPack => ~Exists(fs, GetName(PackedFiles, Top.builddir, fs))
    /\ err # "FileExistsError: tarfile.open"

\* C2 (as claimed): every entry of every blob is named by the file's path
\* relative to the source root of the run.
C2_RelativeToSourceRoot ==
    \A b \in Blobs : \A e \in fs[b].data :
        e.arcname = Str(RelativeTo(e.fpath, rootdir))

\* C2 (amended): every entry of every blob is named by the file's path relative
\* to the directory explore was exploring when it wrote the blob: the path
\* relative to the source root without its first k parts, for a blob k
\* directories below the top of the build directory.
C2_RelativeToExploredDir ==
    \A b \in Blobs : \A e \in fs[b].data :
        LET k == Len(b) - Len(builddir) - 1
            rel == RelativeTo(e.fpath, rootdir)
        IN /\ IsPrefix(rootdir, e.fpath)
           /\ k < Len(rel)
           /\ e.arcname = Str(SubSeq(rel, k + 1, Len(rel)))
           /\ BuildDirOf(SubSeq(e.fpath, 1, Len(rootdir) + k)) = ParentOf(b)

\* C2's case: the run is over and left a blob with an entry inside a grouped
\* build subdirectory, and a tree blob with an entry from a nested directory.
C2_Witness ==
    /\ pc = "done"
    /\ \E b \in Blobs : Len(b) > Len(builddir) + 1 /\ fs[b].data # {}
    /\ \E b \in Blobs : \E e \in fs[b].data :
          fs[b].by = "build_tree" /\ Len(e.fpath) > Len(rootdir) + 2

\* C3: no blob has an entry for a path that is ignored or lies below an ignored
\* directory, and explore never goes down (creating a build subdirectory) on one.
C3_IgnoredNeverArchived ==
    /\ \A b \in Blobs : \A e \in fs[b].data : ~Hidden(e.fpath)
    /\ \A d \in WentDown : ~Hidden(d)
    /\ Completed =>
         \A d \in SourceDirs : Hidden(d) => ~Exists(fs, BuildDirOf(d)) \/ ~IsDir(fs, BuildDirOf(d))
                                            \/ \E o \in SourceDirs \ {d} : ~Hidden(o) /\ BuildDirOf(o) = BuildDirOf(d)

\* C3's case: the run is over; an ignored directory with a readable file in it
\* lies inside a directory that build_tree archived, and an ignored file lies
\* in some source directory.
C3_Witness ==
    /\ pc = "done"
    /\ \E i \in to_ignore :
          /\ IsDir(fs, i)
          /\ \E q \in SourceFiles : IsPrefix(i, q) /\ Readable(fs, q)
          /\ \E d \in BuiltWhole : IsPrefix(d, i) /\ d # i

\* the grouping rule as claimed: d is, or lies under, a key with budget n > 0,
\* at a depth d <= n
ClaimedGrouped(d) ==
    \E k \in DOMAIN group_levels :
        /\ IsPrefix(k, d)
        /\ group_levels[k] > 0
        /\ Len(d) - Len(rootdir) <= group_levels[k]

\* C4 (as claimed): once explore is over, a directory that is not hidden was
\* grouped exactly if it is, or lies under, a key with budget n > 0 at a depth
\* d <= n, and every other directory explore met was archived by build_tree.
C4_DepthBudget ==
    Completed =>
        \A d \in SourceDirs :
            ~Hidden(d) =>
                /\ d \in WentDown <=> ClaimedGrouped(d)
                /\ (d \notin WentDown /\ ParentOf(d) \in Explored) => d \in BuiltWhole

\* the blobs with an entry for source file q
Holders(q) == {b \in Blobs : \E e \in fs[b].data : e.fpath = q}

\* the blob a source file belongs in: the packed blob of its directory when
\* explore was called on that directory, else the tree blob of its outermost
\* ancestor that explore was not called on
RECURSIVE LeafAbove(_)
LeafAbove(d) == IF ParentOf(d) \in Explored THEN d ELSE LeafAbove(ParentOf(d))

ExpectedBlob(q) ==
    IF ParentOf(q) \in Explored
    THEN BuildDirOf(ParentOf(q)) \o <<Blob(PackedFiles)>>
    ELSE LET leaf == LeafAbove(ParentOf(q))
         IN BuildDirOf(ParentOf(leaf)) \o <<Blob(Sanitize(leaf[Len(leaf)]))>>

\* the blobs pack_files wrote for explored directory d
PackedOf(d) == {b \in Blobs : ParentOf(b) = BuildDirOf(d) /\ fs[b].by = "pack_files"}

\* C10: once explore has run to completion, every readable source file that is
\* not hidden is an entry of exactly one blob, the one its place in the tree
\* assigns it; no blob has any other entry; and every explored directory has at
\* most one packed blob, and has one exactly if some immediate child of it is
\* no directory and is not ignored.
C10_BlobsPartitionFiles ==
    Completed =>
        /\ \A q \in SourceFiles :
              IF Readable(fs, q) /\ ~Hidden(q)
              THEN /\ Holders(q) = {ExpectedBlob(q)}
                   /\ Cardinality({e \in fs[ExpectedBlob(q)].data : e.fpath = q}) = 1
                   /\ fs[ExpectedBlob(q)].by =
                         (IF ParentOf(q) \in Explored THEN "pack_files" ELSE "build_tree")
              ELSE Holders(q) = {}
        /\ \A b \in Blobs : \A e \in fs[b].data : e.fpath \in SourceFiles
        /\ \A d \in Explored :
              /\ Cardinality(PackedOf(d)) <= 1
              /\ PackedOf(d) # {} <=>
                    \E c \in IterDir(fs, d) : ~IsDir(fs, c) /\ c \notin to_ignore

\* C10's case: the run is over; a packed blob has entries, a tree blob was
\* written, some explored directory has no packed blob, and some source file
\* is unreadable or hidden.
C10_Witness ==
    /\ pc = "done"
    /\ \E b \in Blobs : fs[b].by = "pack_files" /\ fs[b].data # {}
    /\ \E b \in Blobs : fs[b].by = "build_tree"
    /\ \E d \in Explored : PackedOf(d) = {}
    /\ \E q \in SourceFiles : ~Readable(fs, q) \/ Hidden(q)

\* ------------------------------------------------------------ the sanitizer
\* Characters of the names handed to sanitize: the forbidden ones, '.', ' ',
\* '%', 'a', 'E', and code points around and above 0xFFFF.
SanChars == DROPBOX_FORBIDDEN \cup {Dot, Space, Pct, 97, 69, 65535, 65536, 128512, 1114111}

NamesUpTo(n) == UNION {[1..k -> SanChars] : k \in 1..n}

InitSanitize ==
    /\ pc = "sanitize" /\ err = "none"
    /\ sname \in NamesUpTo(MaxNameLen)
    /\ sresult = <<>>
    /\ cfg = <<>> /\ fs = <<>> /\ bytes = <<>>
    /\ rootdir = <<>> /\ builddir = <<>> /\ syncdir = <<>>
    /\ to_ignore = {} /\ group_levels = <<>>
    /\ stack = <<>> /\ log = {} /\ todo = {}
    /\ walk = {} /\ all_stats = <<>> /\ cmp = <<>>

\* a call sanitize(name)
SanitizeCall ==
    /\ pc = "sanitize"
    /\ sresult' = Sanitize(sname)
    /\ pc' = "sanitized"
    /\ UNCHANGED <<err, cfg, mainLocals, fs, stack, log, statsVars, todo, sname>>

SpecSanitize == InitSanitize /\ [][SanitizeCall]_vars

\* The characters the claim forbids: " * / : < > ? \ |
ClaimForbidden == {34, 42, 47, 58, 60, 62, 63, 92, 124}

\* character i of name is one the claim says is copied
Kept(name, i) ==
    /\ name[i] \notin ClaimForbidden
    /\ name[i] <= 65535
    /\ ~(i = Len(name) /\ name[i] \in {Dot, Space})

\* an escape: '%' first, then only '%', digits and A-F
IsEscape(t) ==
    /\ Len(t) >= 2
    /\ t[1] = Pct
    /\ \A i \in 1..Len(t) : t[i] = Pct \/ (t[i] >= 48 /\ t[i] <= 57) \/ (t[i] >= 65 /\ t[i] <= 70)

\* result, from position j on, is name from position i on with every kept
\* character copied and every other one replaced by an escape
RECURSIVE CopiesKept(_, _, _, _)
CopiesKept(name, i, result, j) ==
    IF i > Len(name) THEN j = Len(result) + 1
    ELSE IF Kept(name, i)
    THEN j <= Len(result) /\ result[j] = name[i] /\ CopiesKept(name, i + 1, result, j + 1)
    ELSE \E k \in 2..(Len(result) - j + 1) :
            IsEscape(SubSeq(result, j, j + k - 1)) /\ CopiesKept(name, i + 1, result, j + k)

EndsWith(t, suffix) ==
    Len(t) >= Len(suffix) /\ SubSeq(t, Len(t) - Len(suffix) + 1, Len(t)) = suffix

\* C8: the sanitized name has no forbidden character and no character above
\* 0xFFFF, does not end in '.' or ' ' (a final '.' becomes '%2E', a final ' '
\* '%20'), and copies every other character of the name unchanged and in order.
C8_SafeName ==
    pc = "sanitized" =>
        /\ \A i \in 1..Len(sresult) : sresult[i] \notin ClaimForbidden /\ sresult[i] <= 65535
        /\ sresult # <<>>
        /\ sresult[Len(sresult)] \notin {Dot, Space}
        /\ sname[Len(sname)] = Dot => EndsWith(sresult, <<Pct, 50, 69>>)
        /\ sname[Len(sname)] = Space => EndsWith(sresult, <<Pct, 50, 48>>)
        /\ CopiesKept(sname, 1, sresult, 1)

\* C8's case: a name with a forbidden character and a character above 0xFFFF
\* that ends in '.' has been sanitized.
C8_Witness ==
    /\ pc = "sanitized"
    /\ \E i \in 1..Len(sname) : sname[i] \in ClaimForbidden
    /\ \E i \in 1..Len(sname) : sname[i] > 65535
    /\ sname[Len(sname)] = Dot
    /\ Len(sresult) > Len(sname)

\* ------------------------------------------------------------ the diff reporter
\* Bound of the file contents compared: files of up to MaxChunks chunks, give
\* or take a byte.
MaxChunks == 1

N_t == <<116>>
N_u == <<117>>

Lens == {0, 1} \cup {k * ChunkSize + d : k \in 1..MaxChunks, d \in {0 - 1, 0, 1}}
Contents == {[len |-> n, mark |-> m] : n \in Lens, m \in {0, 1} \cup Lens} \cap
            {c \in [len : Lens, mark : {0, 1} \cup Lens] : c.mark <= c.len}
SmallContents == {c \in Contents : c.len <= 1}

Empty == [len |-> 0, mark |-> 0]

\* what the mirror has at a blob's path: a file of some content, or what
\* others names
MirrorStates(contents, others) ==
    {[at |-> "file", c |-> c] : c \in contents} \cup {[at |-> o, c |-> Empty] : o \in others}

BlobT == <<Blob(N_t)>>
BlobU == <<N_g, Blob(N_u)>>

DiffBase == WithTree(<<>>, {<<RootPart>>, RootPath, ParentOf(RootPath), BuildPath, SyncPath0}, {}, {})

\* main at line 238, after a run of explore that left one blob at the top of the
\* build dir and at most one in a subdirectory of it; the mirror holds, at each
\* of these paths, nothing, a file, or a directory.
InitDiff ==
    /\ pc = "stats" /\ err = "none"
    /\ rootdir = RootPath /\ builddir = BuildPath /\ syncdir = SyncPath0
    /\ to_ignore = {} /\ group_levels = <<>>
    /\ cfg = [rootdir |-> Str(RootPath), builddir |-> Str(BuildPath), syncdir |-> Str(SyncPath0),
              ignore_list |-> {}, group_levels |-> <<>>]
    /\ stack = <<>> /\ log = {} /\ todo = {}
    /\ all_stats = <<>> /\ cmp = <<>>
    /\ sname = <<>> /\ sresult = <<>>
    /\ \E withU \in BOOLEAN :
       \E ct \in (IF withU THEN SmallContents ELSE Contents) :
       \E mt \in MirrorStates(IF withU THEN SmallContents ELSE Contents, {"absent", "dir"}) :
       \E cu \in (IF withU THEN SmallContents ELSE {Empty}) :
       \E mu \in MirrorStates(IF withU THEN SmallContents ELSE {}, IF withU THEN {"absent", "nodir"} ELSE {"absent"}) :
          LET bfiles == {BuildPath \o BlobT} \cup (IF withU THEN {BuildPath \o BlobU} ELSE {})
              bdirs == IF withU THEN {BuildPath \o <<N_g>>} ELSE {}
              sfiles == (IF mt.at = "file" THEN {SyncPath0 \o BlobT} ELSE {})
                        \cup (IF mu.at = "file" THEN {SyncPath0 \o BlobU} ELSE {})
              sdirs == (IF mt.at = "dir" THEN {SyncPath0 \o BlobT} ELSE {})
                       \cup (IF withU /\ mu.at # "nodir" THEN {SyncPath0 \o <<N_g>>} ELSE {})
          IN /\ fs = [q \in DOMAIN DiffBase \cup bfiles \cup bdirs \cup sfiles \cup sdirs |->
                        IF q \in bfiles THEN FileNode(TRUE, "build_tree", {})
                        ELSE IF q \in sfiles THEN FileNode(TRUE, "rsync", {})
                        ELSE DirNode]
             /\ bytes = [q \in bfiles \cup sfiles |->
                           IF q = BuildPath \o BlobT THEN ct
                           ELSE IF q = BuildPath \o BlobU THEN cu
                           ELSE IF q = SyncPath0 \o BlobT THEN mt.c
                           ELSE mu.c]
             /\ walk = bfiles

SpecDiff == InitDiff /\ [][DiffNext]_vars

\* the two contents have the same length and the same byte at every position
SameBytes(c1, c2) == c1.len = c2.len /\ \A i \in 1..c1.len : ByteAt(c1, i) = ByteAt(c2, i)

\* the status the claim gives the build file at relative path rel
ClaimedStatus(rel) ==
    IF ~Exists(fs, syncdir \o rel) THEN "new"
    ELSE IF SameBytes(bytes[builddir \o rel], bytes[syncdir \o rel]) THEN "equal"
    ELSE "changed"

StatsRecorded == {all_stats[k][1] : k \in 1..Len(all_stats)}

DiffClassified ==
    /\ \A k \in 1..Len(all_stats) :
          /\ builddir \o all_stats[k][1] \in BuildFiles(fs, builddir)
          /\ all_stats[k][3] = ClaimedStatus(all_stats[k][1])
          /\ \A j \in 1..Len(all_stats) : all_stats[j][1] = all_stats[k][1] => j = k
    /\ pc = "copy" => StatsRecorded = {RelativeTo(p, builddir) : p \in BuildFiles(fs, builddir)}

\* C7: every status main records for a build file is "new" when nothing exists
\* at its mirror path, else "equal" exactly if the two files have the same
\* length and the same bytes, else "changed"; no file gets two statuses, and
\* when the walk is over every build file has one; no step of the stats changes
\* a file or a directory.
C7_DiffClassification ==
    /\ []DiffClassified
    /\ [][fs' = fs /\ bytes' = bytes]_vars

\* C7's case: the walk is over with one file "new" and one "equal"; and, in
\* another run, files that differ only after the first chunk are "changed".
C7_Witness ==
    /\ pc = "copy"
    /\ \E k \in 1..Len(all_stats) :
          /\ all_stats[k][3] = "changed"
          /\ all_stats[k][2] > ChunkSize
          /\ bytes[syncdir \o all_stats[k][1]].len >= ChunkSize
          /\ Read(bytes[builddir \o all_stats[k][1]], 0, ChunkSize)
             = Read(bytes[syncdir \o all_stats[k][1]], 0, ChunkSize)

\* ------------------------------------------------------------------- main
\* The source tree of the runs below: p/a/x, p/y, o/z, f and the directory
\* tmp/sync, under the root /home/data; an earlier build in /build; a mirror in
\* /sync.
TreeDirs ==
    {RootPath \o d : d \in {<<N_p>>, <<N_p, N_a>>, <<N_o>>, <<N_tmp>>, <<N_tmp, N_sync>>}}
TreeFiles ==
    {RootPath \o r : r \in {<<N_p, N_a, N_x>>, <<N_p, N_y>>, <<N_o, N_z>>, <<N_f>>}}

MainFs(mirrorDirs, mirrorBlobs) ==
    LET f == WithTree(BaseFs, {ParentOf(RootPath), RootPath, SyncPath0} \cup TreeDirs, TreeFiles, {})
    IN [q \in DOMAIN f \cup mirrorDirs \cup mirrorBlobs |->
          IF q \in mirrorBlobs THEN FileNode(TRUE, "rsync", {})
          ELSE IF q \in mirrorDirs THEN DirNode
          ELSE f[q]]

StartOfMain ==
    /\ pc = "validate" /\ err = "none" /\ bytes = <<>>
    /\ Unset

\* Any configuration over these texts, valid or not.
RootTexts == {Str(RootPath), Str(<<N_home, N_data>>)}
BuildTexts ==
    {Str(BuildPath), Str(<<N_build>>), Str(RootPath), Str(ParentOf(RootPath)),
     Str(RootPath \o <<N_tmp, N_build>>)}
SyncTexts == {Str(SyncPath0), Str(<<N_sync>>), Str(RootPath \o <<N_tmp, N_sync>>)}
IgnoreTexts == {Str(<<N_tmp>>), Str(RootPath \o <<N_tmp>>), Str(<<N_nope>>), Str(<<N_p, N_y>>)}
KeyTexts == {Str(<<N_p>>), Str(<<N_p, N_a>>), Str(<<N_f>>), Str(<<N_nope>>)}
ValueTexts == {IntValue(0), IntValue(1), StrValue(N_abc), StrValue(<<50>>)}

InitMain ==
    /\ StartOfMain
    /\ fs = MainFs({}, {SyncPath0 \o <<Blob(N_o)>>})
    /\ \E r \in RootTexts, b \in BuildTexts, y \in SyncTexts :
       \E ign \in SUBSET IgnoreTexts :
       \E keys \in SUBSET KeyTexts :
          /\ Cardinality(ign) <= 2
          /\ Cardinality(keys) <= 1
          /\ \E levels \in [keys -> ValueTexts] :
                cfg = [rootdir |-> r, builddir |-> b, syncdir |-> y,
                       ignore_list |-> ign, group_levels |-> levels]

SpecMain == InitMain /\ [][MainNext]_vars

\* A valid configuration (p grouped or not), and any mirror left by earlier
\* runs: a blob and a directory that are no longer built, at the top and
\* inside p, and a blob that is built again.
MirrorParts ==
    {[dirs |-> {}, blobs |-> {SyncPath0 \o <<Blob(N_x)>>}],
     [dirs |-> {SyncPath0 \o <<N_p>>}, blobs |-> {SyncPath0 \o <<N_p, Blob(N_x)>>}],
     [dirs |-> {SyncPath0 \o <<N_g>>}, blobs |-> {SyncPath0 \o <<N_g, Blob(N_x)>>}],
     [dirs |-> {}, blobs |-> {SyncPath0 \o <<Blob(N_o)>>}]}

InitSync ==
    /\ StartOfMain
    /\ \E parts \in SUBSET MirrorParts :
          fs = MainFs(UNION {m.dirs : m \in parts}, UNION {m.blobs : m \in parts})
    /\ \E keys \in SUBSET {Str(<<N_p>>)}, ign \in SUBSET {Str(<<N_tmp>>)} :
          cfg = [rootdir |-> Str(RootPath), builddir |-> Str(BuildPath), syncdir |-> Str(SyncPath0),
                 ignore_list |-> ign, group_levels |-> [k \in keys |-> IntValue(1)]]

SpecSync == InitSync /\ [][MainNext]_vars

\* ----------------------------------------------------------- claims on main
\* what exists below directory d, by relative path
Below_(f, d) == {RelativeTo(q, d) : q \in Subtree(f, d) \ {d}}

\* C5 (as claimed): when the copy is over, the mirror holds exactly what the
\* build directory holds, at the top and below every subdirectory.
C5_ExactMirror ==
    pc = "done" =>
        /\ Below_(fs, syncdir) = Below_(fs, builddir)
        /\ \A rel \in Below_(fs, builddir) :
              /\ fs[syncdir \o rel].kind = fs[builddir \o rel].kind
              /\ fs[syncdir \o rel].data = fs[builddir \o rel].data

\* the configuration fails one of the checks the claim lists
IsAbsoluteText(text) == text # <<>> /\ text[1] = Slash

ClaimConfigBad ==
    LET root == Path(cfg.rootdir) IN
    \/ ~IsAbsoluteText(cfg.rootdir) \/ ~IsAbsoluteText(cfg.builddir) \/ ~IsAbsoluteText(cfg.syncdir)
    \/ \E e \in cfg.ignore_list : IsAbsoluteText(e) \/ root \o Path(e) \notin DOMAIN fs
    \/ \E k \in DOMAIN cfg.group_levels :
          \/ root \o Path(k) \notin DOMAIN fs
          \/ fs[root \o Path(k)].kind # "dir"
          \/ Len(Path(k)) > 1
          \/ cfg.group_levels[k].t = "str" /\ ~IsDigits(cfg.group_levels[k].v)
    \/ \E d \in {Path(cfg.builddir), Path(cfg.syncdir)} :
          /\ Len(d) > Len(root) /\ IsPrefix(root, d)
          /\ ~\E e \in cfg.ignore_list : Len(d) > Len(root \o Path(e)) /\ IsPrefix(root \o Path(e), d)

\* C6: started on a configuration that fails a check, main takes one step,
\* which raises ValueError and leaves every file and directory as it was:
\* nothing is removed, created or copied (the aborted run takes no other step).
C6_ConfigErrorsFirst ==
    [][(pc = "validate" /\ ClaimConfigBad)
          => (fs' = fs /\ pc' = "aborted" /\ err' = "ValueError" /\ todo' = todo)]_vars

\* C6's case: a run has aborted on a build dir that lies under the root and
\* under nothing ignored, with the old build and the mirror still in place.
C6_Witness ==
    /\ pc = "aborted" /\ err = "ValueError"
    /\ IsAbsoluteText(cfg.rootdir) /\ IsAbsoluteText(cfg.builddir) /\ IsAbsoluteText(cfg.syncdir)
    /\ cfg.ignore_list = {} /\ DOMAIN cfg.group_levels = {}
    /\ Len(Path(cfg.builddir)) > Len(Path(cfg.rootdir))
    /\ IsPrefix(Path(cfg.rootdir), Path(cfg.builddir))
    /\ Exists(fs, BuildPath \o <<Blob(N_o)>>)

\* C9 (as claimed): the build directory a validated run removes is not the
\* source root, not an ancestor of it, and not below it outside every ignored
\* directory; removing it leaves every source path that is not hidden as it was.
C9_SourceKept ==
    [][pc = "rebuild" =>
          /\ builddir # rootdir
          /\ ~IsPrefix(builddir, rootdir)
          /\ IsPrefix(rootdir, builddir) => Hidden(builddir)
          /\ \A q \in DOMAIN fs :
                (IsPrefix(rootdir, q) /\ ~Hidden(q)) => (q \in DOMAIN fs' /\ fs'[q] = fs[q])]_vars

====
